---- MODULE Spec2Model ----
(***************************************************************************)
(* Model of the vestream signalling hub (the WebSocket server of the       *)
(* backend package): the in-memory registries rooms / users / connections  *)
(* / activeStreams / chatMessages, the per-connection closure variable     *)
(* currentUserId, and one action per inbound envelope type plus the        *)
(* ws 'close' handler.  Each action is a whole handler invocation; the     *)
(* envelopes the handler writes are recorded, in order, in `sent`.         *)
(* Envelope timestamps are omitted (they carry no control flow).           *)
(***************************************************************************)
EXTENDS Integers, Sequences, FiniteSets, TLC

\* ---------------------------------------------------------------- bounds
NumSessions == 2      \* WebSocket connections accepted by wss.on('connection')
MaxIds      == 2      \* user ids minted by uuidv4() in JOIN_ROOM
MaxChat     == 1      \* chat entries minted by uuidv4() in CHAT_MESSAGE
ChatSessions == 3     \* sessions of the chat specification
ChatMaxIds   == 3     \* identities of the chat specification
CloseSessions == 3    \* sessions of the close specification
CloseMaxIds   == 3    \* identities of the close specification
\* the history specification SpecHistory: a room whose chat log already holds
\* HistoryLen entries, HistoryChat further entries, two connections, three user ids
HistoryLen      == 49
HistoryChat     == 2
HistorySessions == 2
HistoryMaxIds   == 3
\* the single-room specification SpecRoom: three connections, three user ids
RoomSessions == 3
RoomMaxIds   == 3
\* the two-room specification SpecCross: two connections, two user ids
CrossSessions == 2
CrossMaxIds   == 2
\* the relay specification SpecRelay: two connections, three user ids
RelaySessions == 2
RelayMaxIds   == 3

\* ---------------------------------------------------------------- inputs
Sessions  == 1..NumSessions
UserIds   == 1..MaxIds
NoUser    == 0                       \* undefined (currentUserId, room.broadcaster, recipientId)
RoomIds   == {"r", "q"}
\* usernames as sequences of character codes: "A", "a", "b"
Usernames == {<<65>>, <<97>>, <<98>>}
\* the role field is client JSON; "moderator" stands for any other string
Roles     == {"broadcaster", "viewer", "moderator"}
ChatKinds == {"public", "private"}
Contents  == {"hi"}
SignalTypes == {"OFFER", "ANSWER", "ICE_CANDIDATE"}
\* the sender field is client JSON: the id of the first identity, or a value that is no id
ClientSenders == {1, 9}
SignalData == {"D"}

VARIABLES rooms, users, connections, activeStreams, chatMessages,
          currentUserId, readyState, nextId, nextMsg, sent, last, notified

\* sent, last and notified record what the handlers did: the envelopes written by
\* the last handler run, the last event, and the viewer ids in the rooms that have
\* been sent, since they joined, a BROADCASTER_READY naming the broadcaster their
\* room has now
vars == <<rooms, users, connections, activeStreams, chatMessages,
          currentUserId, readyState, nextId, nextMsg, sent, last, notified>>

\* ---------------------------------------------------------------- Map helpers
MapSet(m, k, v) == [x \in (DOMAIN m) \cup {k} |-> IF x = k THEN v ELSE m[x]]
MapDelete(m, k) == [x \in (DOMAIN m) \ {k} |-> m[x]]
MapHas(m, k)    == k \in DOMAIN m

\* String.prototype.toLowerCase on ASCII character codes
LowerChar(c) == IF c >= 65 /\ c <= 90 THEN c + 32 ELSE c
toLowerCase(s) == [i \in 1..Len(s) |-> LowerChar(s[i])]

\* sendMessage(ws, message): one write of `message` to session `ws`
sendMessage(ws, message) == <<[to |-> ws, msg |-> message]>>

\* concatenation of ss[1], ..., ss[Len(ss)]: what a forEach over the elements
\* emits or pushes, in iteration order
Flatten(ss) ==
    LET acc[i \in 0..Len(ss)] == IF i = 0 THEN <<>> ELSE acc[i - 1] \o ss[i]
    IN acc[Len(ss)]

\* member ids of a room in iteration order: broadcaster first, then viewers
memberIds(room) ==
    (IF room.broadcaster # NoUser THEN <<room.broadcaster>> ELSE <<>>) \o room.viewers

broadcastToRoom(rms, conns, roomId, message, excludeUser) ==
    IF ~MapHas(rms, roomId) THEN <<>>
    ELSE LET userIds == memberIds(rms[roomId]) IN
         Flatten([i \in 1..Len(userIds) |->
                    IF excludeUser # NoUser /\ userIds[i] = excludeUser THEN <<>>
                    ELSE IF MapHas(conns, userIds[i])
                         THEN sendMessage(conns[userIds[i]], message)
                         ELSE <<>>])

\* bug variant: the comparison without toLowerCase()
isUsernameTakenExact(rms, usrs, roomId, username) ==
    IF ~MapHas(rms, roomId) THEN FALSE
    ELSE \E u \in DOMAIN usrs :
            /\ usrs[u].roomId = roomId
            /\ usrs[u].username = username

isUsernameTaken(rms, usrs, roomId, username) ==
    IF ~MapHas(rms, roomId) THEN FALSE
    ELSE \E u \in DOMAIN usrs :
            /\ usrs[u].roomId = roomId
            /\ toLowerCase(usrs[u].username) = toLowerCase(username)

\* bug variant: the payload carries the viewer's own User
notifyViewerOfBroadcasterNamesViewer(rms, usrs, conns, roomId, viewerId) ==
    IF ~MapHas(rms, roomId) \/ rms[roomId].broadcaster = NoUser THEN <<>>
    ELSE IF MapHas(usrs, viewerId) /\ MapHas(conns, viewerId)
         THEN sendMessage(conns[viewerId],
                  [type |-> "BROADCASTER_READY",
                   payload |-> [broadcaster |-> usrs[viewerId]]])
         ELSE <<>>

notifyViewerOfBroadcaster(rms, usrs, conns, roomId, viewerId) ==
    IF ~MapHas(rms, roomId) \/ rms[roomId].broadcaster = NoUser THEN <<>>
    ELSE IF MapHas(usrs, rms[roomId].broadcaster) /\ MapHas(conns, viewerId)
         THEN sendMessage(conns[viewerId],
                  [type |-> "BROADCASTER_READY",
                   payload |-> [broadcaster |-> usrs[rms[roomId].broadcaster]]])
         ELSE <<>>

\* the sequence in reverse order
Reverse(seq) == [i \in 1..Len(seq) |-> seq[Len(seq) + 1 - i]]

\* bug variant: the snapshot lists the viewers newest first
getRoomWithUsersNewestFirst(rms, usrs, roomId) ==
    IF ~MapHas(rms, roomId) THEN [id |-> "null"]
    ELSE LET room == rms[roomId] IN
         [id |-> room.id, name |-> room.name,
          broadcaster |-> room.broadcaster, viewers |-> Reverse(room.viewers),
          users |-> Flatten([i \in 1..Len(memberIds(room)) |->
                               IF MapHas(usrs, memberIds(room)[i])
                               THEN <<usrs[memberIds(room)[i]]>> ELSE <<>>])]

\* snapshot {...room, users}; "null" when the room is absent
getRoomWithUsers(rms, usrs, roomId) ==
    IF ~MapHas(rms, roomId) THEN [id |-> "null"]
    ELSE LET room == rms[roomId] IN
         [id |-> room.id, name |-> room.name,
          broadcaster |-> room.broadcaster, viewers |-> room.viewers,
          users |-> Flatten([i \in 1..Len(memberIds(room)) |->
                               IF MapHas(usrs, memberIds(room)[i])
                               THEN <<usrs[memberIds(room)[i]]>> ELSE <<>>])]

DefaultLimit == 50

\* bug variant: slice(0, limit), the oldest entries
SliceFirst(messages, limit) ==
    SubSeq(messages, 1, IF Len(messages) < limit THEN Len(messages) ELSE limit)

\* Array.prototype.slice(-limit): the last limit entries for limit >= 1; for
\* limit <= 0 the start index -limit counts from the front
SliceLast(messages, limit) ==
    LET len == Len(messages)
        start == IF limit > 0
                 THEN (IF len - limit < 0 THEN 0 ELSE len - limit)
                 ELSE (IF -limit > len THEN len ELSE -limit)
    IN SubSeq(messages, start + 1, len)

getRoomMessages(chats, roomId, limit) ==
    SliceLast(IF MapHas(chats, roomId) THEN chats[roomId] ELSE <<>>, limit)

\* some envelope of the sequence is a BROADCASTER_READY whose payload is the User of
\* the room's broadcaster
namesBroadcaster(envelopes, room) ==
    \E i \in 1..Len(envelopes) :
        /\ envelopes[i].msg.type = "BROADCASTER_READY"
        /\ envelopes[i].msg.payload.broadcaster.id = room.broadcaster

\* ---------------------------------------------------------------- Init
InitOver(sessions) ==
    /\ rooms = << >>
    /\ users = << >>
    /\ connections = << >>
    /\ activeStreams = << >>
    /\ chatMessages = << >>
    /\ currentUserId = [s \in sessions |-> NoUser]
    /\ readyState = [s \in sessions |-> "NONE"]
    /\ nextId = 1
    /\ nextMsg = 1
    /\ sent = <<>>
    /\ last = [op |-> "INIT", s |-> 0]
    /\ notified = {}

Init == InitOver(Sessions)

ErrorMsg(code) == [type |-> "ERROR", payload |-> [code |-> code]]

\* ---------------------------------------------------------------- wss.on('connection')
\* the server accepts a connection; sessions are numbered in the order accepted
Connect(s) ==
    /\ readyState[s] = "NONE"
    /\ \A t \in DOMAIN readyState : t < s => readyState[t] # "NONE"
    /\ readyState' = [readyState EXCEPT ![s] = "OPEN"]
    /\ sent' = <<>>
    /\ last' = [op |-> "CONNECT", s |-> s]
    /\ UNCHANGED <<rooms, users, connections, activeStreams, chatMessages,
                   currentUserId, nextId, nextMsg, notified>>

\* ---------------------------------------------------------------- JOIN_ROOM
\* bug variant: the BROADCASTER_EXISTS test is missing
JoinFailureNoBroadcasterCheck(roomId, username, role) ==
    IF ~MapHas(rooms, roomId)
    THEN IF role = "viewer" THEN "ROOM_NOT_FOUND" ELSE "ok"
    ELSE IF isUsernameTaken(rooms, users, roomId, username) THEN "USER_EXISTS"
    ELSE "ok"

\* the branch the JOIN_ROOM handler takes: an ERROR code, or "ok" when it seats the user
JoinFailure(roomId, username, role) ==
    IF ~MapHas(rooms, roomId)
    THEN IF role = "viewer" THEN "ROOM_NOT_FOUND" ELSE "ok"
    ELSE IF isUsernameTaken(rooms, users, roomId, username) THEN "USER_EXISTS"
    ELSE IF role = "broadcaster" /\ rooms[roomId].broadcaster # NoUser
         THEN "BROADCASTER_EXISTS"
    ELSE "ok"

\* bug variant: currentUserId is overwritten before the request is validated
JoinRoomFailRebinds(s, roomId, username, role) ==
    /\ readyState[s] = "OPEN"
    /\ nextId <= MaxIds
    /\ JoinFailure(roomId, username, role) # "ok"
    /\ sent' = sendMessage(s, ErrorMsg(JoinFailure(roomId, username, role)))
    /\ last' = [op |-> "JOIN_ROOM", s |-> s, role |-> role,
                result |-> JoinFailure(roomId, username, role)]
    /\ currentUserId' = [currentUserId EXCEPT ![s] = nextId]
    /\ nextId' = nextId + 1
    /\ UNCHANGED <<rooms, users, connections, activeStreams, chatMessages,
                   readyState, nextMsg, notified>>

JoinRoomFail(s, roomId, username, role) ==
    /\ readyState[s] = "OPEN"
    /\ JoinFailure(roomId, username, role) # "ok"
    /\ sent' = sendMessage(s, ErrorMsg(JoinFailure(roomId, username, role)))
    /\ last' = [op |-> "JOIN_ROOM", s |-> s, role |-> role,
                result |-> JoinFailure(roomId, username, role)]
    /\ UNCHANGED <<rooms, users, connections, activeStreams, chatMessages,
                   currentUserId, readyState, nextId, nextMsg, notified>>

\* bug variant: the stream flag is not consulted
notifiesJoiningViewerNoStreamTest(role, updatedRoom, roomId) ==
    /\ role = "viewer"
    /\ updatedRoom.broadcaster # NoUser

\* the test that sends BROADCASTER_READY to a viewer who has just joined
notifiesJoiningViewer(role, updatedRoom, roomId) ==
    /\ role = "viewer"
    /\ updatedRoom.broadcaster # NoUser
    /\ MapHas(activeStreams, roomId) /\ activeStreams[roomId]

\* bug variant: the ROOM_STATE broadcast precedes the reply to the joiner
joinEnvelopesRoomStateFirst(s, roomId, role, user, rooms1, users1, conns1, roomMessages) ==
    LET roomWithUsers == getRoomWithUsers(rooms1, users1, roomId) IN
    broadcastToRoom(rooms1, conns1, roomId,
        [type |-> "ROOM_STATE", payload |-> [room |-> roomWithUsers]], NoUser)
    \o sendMessage(s, [type |-> "ROOM_JOINED",
                       payload |-> [room |-> roomWithUsers, user |-> user,
                                    messages |-> roomMessages]])
    \o (IF notifiesJoiningViewer(role, rooms1[roomId], roomId)
        THEN notifyViewerOfBroadcaster(rooms1, users1, conns1, roomId, user.id)
        ELSE <<>>)
    \o broadcastToRoom(rooms1, conns1, roomId,
           [type |-> "USER_JOINED", payload |-> [user |-> user]], user.id)

\* the envelopes a successful JOIN_ROOM writes, in order, once the user is stored
joinEnvelopes(s, roomId, role, user, rooms1, users1, conns1, roomMessages) ==
    LET roomWithUsers == getRoomWithUsers(rooms1, users1, roomId) IN
    sendMessage(s, [type |-> "ROOM_JOINED",
                    payload |-> [room |-> roomWithUsers, user |-> user,
                                 messages |-> roomMessages]])
    \o (IF notifiesJoiningViewer(role, rooms1[roomId], roomId)
        THEN notifyViewerOfBroadcaster(rooms1, users1, conns1, roomId, user.id)
        ELSE <<>>)
    \o broadcastToRoom(rooms1, conns1, roomId,
           [type |-> "USER_JOINED", payload |-> [user |-> user]], user.id)
    \o broadcastToRoom(rooms1, conns1, roomId,
           [type |-> "ROOM_STATE", payload |-> [room |-> roomWithUsers]], NoUser)

JoinRoomOk(s, roomId, username, role) ==
    /\ readyState[s] = "OPEN"
    /\ JoinFailure(roomId, username, role) = "ok"
    /\ LET newUserId == nextId
           created == IF MapHas(rooms, roomId) THEN rooms
                      ELSE MapSet(rooms, roomId,
                                  [id |-> roomId, name |-> <<"Room ", roomId>>,
                                   broadcaster |-> NoUser, viewers |-> <<>>])
           chats1 == IF MapHas(rooms, roomId) THEN chatMessages
                     ELSE MapSet(chatMessages, roomId, <<>>)
           user == [id |-> newUserId, username |-> username, role |-> role,
                    roomId |-> roomId]
           updatedRoom == IF role = "broadcaster"
                          THEN [created[roomId] EXCEPT !.broadcaster = newUserId]
                          ELSE [created[roomId] EXCEPT !.viewers = Append(@, newUserId)]
           rooms1 == MapSet(created, roomId, updatedRoom)
           users1 == MapSet(users, newUserId, user)
           conns1 == MapSet(connections, newUserId, s)
           roomMessages == getRoomMessages(chats1, roomId, DefaultLimit)
       IN
       /\ rooms' = rooms1
       /\ chatMessages' = chats1
       /\ users' = users1
       /\ connections' = conns1
       /\ currentUserId' = [currentUserId EXCEPT ![s] = newUserId]
       /\ nextId' = nextId + 1
       /\ sent' = joinEnvelopes(s, roomId, role, user, rooms1, users1, conns1, roomMessages)
       /\ notified' = IF /\ notifiesJoiningViewer(role, updatedRoom, roomId)
                         /\ namesBroadcaster(notifyViewerOfBroadcaster(rooms1, users1, conns1,
                                                 roomId, newUserId), updatedRoom)
                      THEN notified \cup {newUserId} ELSE notified
       /\ last' = [op |-> "JOIN_ROOM", s |-> s, role |-> role, result |-> "ok"]
    /\ UNCHANGED <<activeStreams, readyState, nextMsg>>

JoinRoom(s, roomId, username, role) ==
    \/ JoinRoomFail(s, roomId, username, role)
    \/ JoinRoomOk(s, roomId, username, role)

\* ---------------------------------------------------------------- ws.on('close')
\* bug variant: only the viewers list is tested
isEmptyRoomViewersOnly(room) == Len(room.viewers) = 0

\* the test that removes a room and its chat history
isEmptyRoom(room) == room.broadcaster = NoUser /\ Len(room.viewers) = 0

\* bug variant: the identity is not removed
forgetNothing(map, userId) == map

\* users.delete(currentUserId) and connections.delete(currentUserId)
forget(map, userId) == MapDelete(map, userId)

\* the body of the close handler for session s
closeCleanup(s) ==
    /\ LET cur == currentUserId[s] IN
       IF cur = NoUser
       THEN /\ sent' = <<>>
            /\ UNCHANGED <<rooms, users, connections, activeStreams, chatMessages, notified>>
       ELSE
         /\ users' = forget(users, cur)
         /\ connections' = forget(connections, cur)
         /\ IF ~MapHas(users, cur)
            THEN /\ sent' = <<>>
                 /\ UNCHANGED <<rooms, activeStreams, chatMessages, notified>>
            ELSE
            LET user == users[cur] IN
            /\ activeStreams' = IF user.role = "broadcaster"
                                THEN MapDelete(activeStreams, user.roomId)
                                ELSE activeStreams
            /\ IF ~MapHas(rooms, user.roomId)
               THEN /\ sent' = <<>>
                    /\ UNCHANGED <<rooms, chatMessages, notified>>
               ELSE
               LET room == rooms[user.roomId]
                   room1 == IF user.role = "broadcaster"
                            THEN [room EXCEPT !.broadcaster = NoUser]
                            ELSE [room EXCEPT !.viewers =
                                     SelectSeq(@, LAMBDA id : id # cur)]
                   rooms1 == MapSet(rooms, user.roomId, room1)
                   roomWithUsers == getRoomWithUsers(rooms1, users, user.roomId)
                   userLeft == broadcastToRoom(rooms1, connections, user.roomId,
                                  [type |-> "USER_LEFT",
                                   payload |-> [user |-> user, room |-> roomWithUsers]], cur)
                   empty == isEmptyRoom(room1)
               IN
               /\ rooms' = IF empty THEN MapDelete(rooms1, user.roomId) ELSE rooms1
               /\ notified' = IF room1.broadcaster = room.broadcaster
                               THEN notified \ {cur}
                               ELSE notified \ {room.viewers[i] : i \in 1..Len(room.viewers)}
               /\ chatMessages' = IF empty THEN MapDelete(chatMessages, user.roomId)
                                  ELSE chatMessages
               /\ sent' = userLeft \o
                          (IF empty THEN <<>>
                           ELSE broadcastToRoom(rooms1, connections, user.roomId,
                                   [type |-> "ROOM_STATE",
                                    payload |-> [room |-> roomWithUsers]], NoUser))
    /\ UNCHANGED <<currentUserId, nextId, nextMsg>>

Close(s) ==
    /\ readyState[s] = "OPEN"
    /\ readyState' = [readyState EXCEPT ![s] = "CLOSED"]
    /\ last' = [op |-> "CLOSE", s |-> s, userId |-> currentUserId[s]]
    /\ closeCleanup(s)

\* the body of the close handler run once more for a session that has closed (ws
\* emits 'close' once per socket; this step is the re-entry the handler must survive)
CloseAgain(s) ==
    /\ readyState[s] = "CLOSED"
    /\ UNCHANGED readyState
    /\ last' = [op |-> "CLOSE_AGAIN", s |-> s, userId |-> currentUserId[s]]
    /\ closeCleanup(s)

\* ---------------------------------------------------------------- CHAT_MESSAGE
\* the sender fields of payload.message are client JSON (a ChatMessage of the shared
\* types): left out, or naming a sender "Z" with an id that is no user's, in room "q"
ClientChatFields ==
    {[senderId |-> NoUser, senderUsername |-> <<>>, roomId |-> ""],
     [senderId |-> 9, senderUsername |-> <<90>>, roomId |-> "q"]}

\* bug variant: the client's sender fields are stored
newMessageTrustsClient(id, user, chatMessage) ==
    [id |-> id, senderId |-> chatMessage.senderId,
     senderUsername |-> chatMessage.senderUsername, roomId |-> chatMessage.roomId,
     content |-> chatMessage.content, type |-> chatMessage.type,
     recipientId |-> chatMessage.recipientId]

\* the entry minted for the client's chatMessage, sent by the stored user
newMessage(id, user, chatMessage) ==
    [id |-> id, senderId |-> user.id,
     senderUsername |-> user.username, roomId |-> user.roomId,
     content |-> chatMessage.content, type |-> chatMessage.type,
     recipientId |-> chatMessage.recipientId]

ChatMessage(s, content, kind, recipientId) ==
    /\ readyState[s] = "OPEN"
    /\ last' = [op |-> "CHAT_MESSAGE", s |-> s, content |-> content, kind |-> kind,
                recipientId |-> recipientId, userId |-> currentUserId[s]]
    /\ IF currentUserId[s] = NoUser \/ ~MapHas(users, currentUserId[s])
       THEN /\ sent' = <<>>
            /\ UNCHANGED <<chatMessages, nextMsg>>
       ELSE
       \E fields \in ClientChatFields :
       LET user == users[currentUserId[s]]
           minted == newMessage(nextMsg, user,
                        [senderId |-> fields.senderId,
                         senderUsername |-> fields.senderUsername,
                         roomId |-> fields.roomId, content |-> content,
                         type |-> kind, recipientId |-> recipientId])
           roomMessages == IF MapHas(chatMessages, user.roomId)
                           THEN chatMessages[user.roomId] ELSE <<>>
           received == [type |-> "CHAT_MESSAGE_RECEIVED",
                        payload |-> [message |-> minted]]
       IN
       /\ nextMsg' = nextMsg + 1
       /\ chatMessages' = MapSet(chatMessages, user.roomId, Append(roomMessages, minted))
       /\ sent' = IF kind = "private" /\ recipientId # NoUser
                  THEN (IF MapHas(connections, recipientId)
                        THEN sendMessage(connections[recipientId], received)
                        ELSE <<>>)
                       \o sendMessage(s, received)
                  ELSE broadcastToRoom(rooms, connections, user.roomId, received, NoUser)
    /\ UNCHANGED <<rooms, users, connections, activeStreams, currentUserId, readyState,
                   nextId, notified>>

\* ---------------------------------------------------------------- STREAM_READY
\* bug variant: the role test is missing
streamReadyIgnoredNoRoleTest(s) ==
    \/ currentUserId[s] = NoUser
    \/ ~MapHas(users, currentUserId[s])

\* the early returns of the STREAM_READY handler
streamReadyIgnored(s) ==
    \/ currentUserId[s] = NoUser
    \/ ~MapHas(users, currentUserId[s])
    \/ users[currentUserId[s]].role # "broadcaster"

StreamReady(s) ==
    /\ readyState[s] = "OPEN"
    /\ last' = [op |-> "STREAM_READY", s |-> s, userId |-> currentUserId[s],
                wasActive |-> /\ ~streamReadyIgnored(s)
                              /\ MapHas(activeStreams, users[currentUserId[s]].roomId)
                              /\ activeStreams[users[currentUserId[s]].roomId]]
    /\ IF streamReadyIgnored(s)
       THEN /\ sent' = <<>>
            /\ UNCHANGED <<activeStreams, notified>>
       ELSE
       LET user == users[currentUserId[s]] IN
       /\ activeStreams' = MapSet(activeStreams, user.roomId, TRUE)
       /\ sent' = IF MapHas(rooms, user.roomId)
                  THEN Flatten([i \in 1..Len(rooms[user.roomId].viewers) |->
                                  notifyViewerOfBroadcaster(rooms, users, connections,
                                      user.roomId, rooms[user.roomId].viewers[i])])
                  ELSE <<>>
       /\ notified' = IF MapHas(rooms, user.roomId)
                      THEN notified \cup
                           {v \in {rooms[user.roomId].viewers[i] :
                                      i \in 1..Len(rooms[user.roomId].viewers)} :
                               namesBroadcaster(notifyViewerOfBroadcaster(rooms, users,
                                                    connections, user.roomId, v),
                                                rooms[user.roomId])}
                      ELSE notified
    /\ UNCHANGED <<rooms, users, connections, chatMessages, currentUserId, readyState,
                   nextId, nextMsg>>

\* ---------------------------------------------------------------- VIEWER_READY
\* bug variant: the sender's role is not tested
viewerReadyIgnoredNoRoleTest(s) ==
    \/ currentUserId[s] = NoUser
    \/ ~MapHas(users, currentUserId[s])
    \/ ~MapHas(rooms, users[currentUserId[s]].roomId)
    \/ rooms[users[currentUserId[s]].roomId].broadcaster = NoUser

\* the early returns of the VIEWER_READY handler
viewerReadyIgnored(s) ==
    \/ currentUserId[s] = NoUser
    \/ ~MapHas(users, currentUserId[s])
    \/ users[currentUserId[s]].role # "viewer"
    \/ ~MapHas(rooms, users[currentUserId[s]].roomId)
    \/ rooms[users[currentUserId[s]].roomId].broadcaster = NoUser

ViewerReady(s) ==
    /\ readyState[s] = "OPEN"
    /\ last' = [op |-> "VIEWER_READY", s |-> s, userId |-> currentUserId[s]]
    /\ sent' = IF viewerReadyIgnored(s)
               THEN <<>>
               ELSE LET viewer == users[currentUserId[s]] IN
                    IF MapHas(connections, rooms[viewer.roomId].broadcaster)
                    THEN sendMessage(connections[rooms[viewer.roomId].broadcaster],
                             [type |-> "VIEWER_READY", payload |-> [viewer |-> viewer]])
                    ELSE <<>>
    /\ UNCHANGED <<rooms, users, connections, activeStreams, chatMessages,
                   currentUserId, readyState, nextId, nextMsg, notified>>

\* ---------------------------------------------------------------- OFFER / ANSWER / ICE_CANDIDATE
\* bug variant: a session without an identity may relay
relayIgnoredNever(s) == FALSE

\* the early return of the OFFER / ANSWER / ICE_CANDIDATE handler
relayIgnored(s) == currentUserId[s] = NoUser

\* bug variant: the client's sender field is forwarded
relayTrustsClient(s, type, sender, receiver, roomId, data) ==
    IF relayIgnored(s) THEN <<>>
    ELSE IF MapHas(connections, receiver)
         THEN sendMessage(connections[receiver],
                  [type |-> type,
                   payload |-> [sender |-> sender, receiver |-> receiver,
                                roomId |-> roomId, data |-> data]])
         ELSE <<>>

\* the envelopes the handler writes for the signalling payload {sender, receiver, roomId, data}
relay(s, type, sender, receiver, roomId, data) ==
    IF relayIgnored(s) THEN <<>>
    ELSE IF MapHas(connections, receiver)
         THEN sendMessage(connections[receiver],
                  [type |-> type,
                   payload |-> [sender |-> currentUserId[s], receiver |-> receiver,
                                roomId |-> roomId, data |-> data]])
         ELSE <<>>

Signal(s, type, sender, receiver, roomId, data) ==
    /\ readyState[s] = "OPEN"
    /\ last' = [op |-> type, s |-> s, sender |-> sender, receiver |-> receiver,
                roomId |-> roomId, data |-> data, userId |-> currentUserId[s]]
    /\ sent' = relay(s, type, sender, receiver, roomId, data)
    /\ UNCHANGED <<rooms, users, connections, activeStreams, chatMessages,
                   currentUserId, readyState, nextId, nextMsg, notified>>

\* ---------------------------------------------------------------- REST reads
\* parseInt(req.query.limit) || 50; the query is <<>> when no limit is supplied
\* and <<N>> for the integer N
queryLimit(query) ==
    IF query = <<>> THEN DefaultLimit
    ELSE IF query[1] = 0 THEN DefaultLimit
    ELSE query[1]

\* GET /api/rooms/:roomId/messages; the response body is recorded in last.result
GetMessages(roomId, query) ==
    /\ last' = [op |-> "GET_MESSAGES", s |-> 0, roomId |-> roomId, query |-> query,
                result |-> getRoomMessages(chatMessages, roomId, queryLimit(query))]
    /\ sent' = <<>>
    /\ UNCHANGED <<rooms, users, connections, activeStreams, chatMessages,
                   currentUserId, readyState, nextId, nextMsg, notified>>

\* GET /api/rooms; the rooms of the response body are recorded in last.result
GetRooms ==
    /\ last' = [op |-> "GET_ROOMS", s |-> 0,
                result |-> {rooms[r] : r \in DOMAIN rooms}]
    /\ sent' = <<>>
    /\ UNCHANGED <<rooms, users, connections, activeStreams, chatMessages,
                   currentUserId, readyState, nextId, nextMsg, notified>>

\* ---------------------------------------------------------------- any other type (no case in the switch)
OtherType(s) ==
    /\ readyState[s] = "OPEN"
    /\ last' = [op |-> "LEAVE_ROOM", s |-> s, userId |-> currentUserId[s]]
    /\ sent' = <<>>
    /\ UNCHANGED <<rooms, users, connections, activeStreams, chatMessages,
                   currentUserId, readyState, nextId, nextMsg, notified>>

\* ---------------------------------------------------------------- specification
\* one step of the server over the given sessions and client input sets; maxIds
\* caps the user ids minted
NextOver(sessions, maxIds, maxChat, roomIds, usernames, roles, kinds, recipients, sigTypes, senders, receivers, sigRooms) ==
    \/ \E s \in sessions : Connect(s)
    \/ \E s \in sessions, roomId \in roomIds, username \in usernames, role \in roles :
          JoinRoomFail(s, roomId, username, role)
    \/ \E s \in sessions, roomId \in roomIds, username \in usernames, role \in roles :
          nextId <= maxIds /\ JoinRoomOk(s, roomId, username, role)
    \/ \E s \in sessions, content \in Contents, kind \in kinds, recipientId \in recipients :
          /\ (currentUserId[s] # NoUser /\ MapHas(users, currentUserId[s])) => nextMsg <= maxChat
          /\ ChatMessage(s, content, kind, recipientId)
    \/ \E s \in sessions : StreamReady(s)
    \/ \E s \in sessions : ViewerReady(s)
    \/ \E s \in sessions, type \in sigTypes, sender \in senders,
          receiver \in receivers, roomId \in sigRooms, data \in SignalData :
          Signal(s, type, sender, receiver, roomId, data)
    \/ \E s \in sessions : OtherType(s)
    \/ \E s \in sessions : Close(s)

\* membership specification: every join input, one chat and one signal input
Next == NextOver(Sessions, MaxIds, MaxChat, RoomIds, Usernames, Roles, {"public"}, {NoUser},
                 {"OFFER"}, {9}, {1}, {"r"})

Spec == Init /\ [][Next]_vars

\* single-room specification: three sessions, one room, three usernames that differ
\* after folding, the two roles of the protocol
RoomNames == {<<65>>, <<98>>, <<99>>}

InitRoom == InitOver(1..RoomSessions)

NextRoom == NextOver(1..RoomSessions, RoomMaxIds, MaxChat, {"r"}, RoomNames,
                     {"broadcaster", "viewer"}, {"public"}, {NoUser},
                     {"OFFER"}, {9}, {1}, {"r"})

SpecRoom == InitRoom /\ [][NextRoom]_vars

\* the next-state relation with usernames tied to ids: the k-th user to be seated asks
\* for the k-th username, a refused JOIN_ROOM asks for the first
ChatNames == <<<<65>>, <<98>>, <<99>>, <<100>>>>

NextNamed(sessions, maxIds, roomIds, kinds, recipients) ==
    \/ \E s \in sessions : Connect(s)
    \/ \E s \in sessions, roomId \in roomIds, role \in {"broadcaster", "viewer"} :
          JoinRoomFail(s, roomId, ChatNames[1], role)
    \/ \E s \in sessions, roomId \in roomIds, role \in {"broadcaster", "viewer"} :
          nextId <= maxIds /\ JoinRoomOk(s, roomId, ChatNames[nextId], role)
    \/ \E s \in sessions, content \in Contents, kind \in kinds, recipientId \in recipients :
          /\ (currentUserId[s] # NoUser /\ MapHas(users, currentUserId[s])) => nextMsg <= MaxChat
          /\ ChatMessage(s, content, kind, recipientId)
    \/ \E s \in sessions : StreamReady(s)
    \/ \E s \in sessions : ViewerReady(s)
    \/ \E s \in sessions : Signal(s, "OFFER", 9, 1, "r", "D")
    \/ \E s \in sessions : OtherType(s)
    \/ \E s \in sessions : Close(s)

\* chat specification: three sessions, one room, both chat kinds, every recipient id
InitChat == InitOver(1..ChatSessions)

NextChat == NextNamed(1..ChatSessions, ChatMaxIds, {"r"}, ChatKinds, 0..ChatMaxIds)

SpecChat == InitChat /\ [][NextChat]_vars

\* close specification: three sessions, two rooms, and the close handler run again
InitClose == InitOver(1..CloseSessions)

NextClose ==
    \/ NextNamed(1..CloseSessions, CloseMaxIds, RoomIds, {"public"}, {NoUser})
    \/ \E s \in 1..CloseSessions : CloseAgain(s)

SpecClose == InitClose /\ [][NextClose]_vars

\* history specification: it starts in the state the hub is in after session 1 has
\* joined room "r" as broadcaster "A" and sent HistoryLen public chat messages, so
\* that the log can grow past the default limit of the history reads
HistoryEntry(i) ==
    [id |-> i, senderId |-> 1, senderUsername |-> <<65>>, roomId |-> "r",
     content |-> "hi", type |-> "public", recipientId |-> NoUser]

InitHistory ==
    /\ rooms = MapSet(<< >>, "r", [id |-> "r", name |-> <<"Room ", "r">>,
                                   broadcaster |-> 1, viewers |-> <<>>])
    /\ users = MapSet(<< >>, 1, [id |-> 1, username |-> <<65>>, role |-> "broadcaster",
                                 roomId |-> "r"])
    /\ connections = MapSet(<< >>, 1, 1)
    /\ activeStreams = << >>
    /\ chatMessages = MapSet(<< >>, "r", [i \in 1..HistoryLen |-> HistoryEntry(i)])
    /\ currentUserId = [s \in 1..HistorySessions |-> IF s = 1 THEN 1 ELSE NoUser]
    /\ readyState = [s \in 1..HistorySessions |-> IF s = 1 THEN "OPEN" ELSE "NONE"]
    /\ nextId = 2
    /\ nextMsg = HistoryLen + 1
    /\ sent = <<>>
    /\ last = [op |-> "INIT", s |-> 0]
    /\ notified = {}

\* the limit queries of GET /api/rooms/:roomId/messages: none, or an integer
Queries == {<<>>, <<-1>>, <<0>>, <<1>>, <<2>>, <<51>>}

NextHistory ==
    \/ NextOver(1..HistorySessions, HistoryMaxIds, HistoryLen + HistoryChat, RoomIds,
                {<<98>>, <<99>>}, {"broadcaster", "viewer"}, {"public"}, {NoUser},
                {"OFFER"}, {9}, {1}, {"r"})
    \/ \E roomId \in RoomIds, query \in Queries : GetMessages(roomId, query)
    \/ GetRooms

SpecHistory == InitHistory /\ [][NextHistory]_vars

\* two-room specification: two sessions, two rooms, both chat kinds with every
\* recipient id, every signalling type with every receiver id
InitCross == InitOver(1..CrossSessions)

NextCross == NextOver(1..CrossSessions, CrossMaxIds, MaxChat, RoomIds, {<<65>>, <<98>>},
                      {"broadcaster", "viewer"}, ChatKinds, 0..CrossMaxIds,
                      SignalTypes, {9}, 1..CrossMaxIds, {"r"})

SpecCross == InitCross /\ [][NextCross]_vars

\* relay specification: every signalling input, two sessions, one room
InitRelay == InitOver(1..RelaySessions)

NextRelay == NextOver(1..RelaySessions, RelayMaxIds, MaxChat, {"r"}, RoomNames,
                      {"broadcaster", "viewer"}, {"public"}, {NoUser},
                      SignalTypes, ClientSenders, 1..RelayMaxIds, RoomIds)

SpecRelay == InitRelay /\ [][NextRelay]_vars

\* ================================================================ claims
\* ids seated in a room: its broadcaster (if set) and its viewers
Seated(r) ==
    ({rooms[r].broadcaster} \ {NoUser})
        \cup {rooms[r].viewers[i] : i \in 1..Len(rooms[r].viewers)}

\* C1: every user id that is a room's broadcaster or in its viewers list has a User
\* in the identity registry with the same room id and a connection whose session
\* has not closed.
C1_SeatedHaveLiveIdentity ==
    \A r \in DOMAIN rooms : \A uid \in Seated(r) :
        /\ MapHas(users, uid)
        /\ users[uid].roomId = r
        /\ MapHas(connections, uid)
        /\ readyState[connections[uid]] = "OPEN"

\* C2: at most one User of the identity registry has role broadcaster for a room id,
\* and a step that adds a User with role broadcaster to an existing room finds that
\* room's broadcaster field unset.
C2_State ==
    \A r \in RoomIds :
        Cardinality({u \in DOMAIN users :
                        users[u].role = "broadcaster" /\ users[u].roomId = r}) <= 1

C2_JoinStep ==
    \A u \in (DOMAIN users') \ (DOMAIN users) :
        (users'[u].role = "broadcaster" /\ MapHas(rooms, users'[u].roomId))
            => rooms[users'[u].roomId].broadcaster = NoUser

C2_AtMostOneBroadcaster == [](C2_State) /\ [][C2_JoinStep]_vars

\* a second JOIN_ROOM with role broadcaster was refused while the room keeps its broadcaster
C2_Witness ==
    /\ last.op = "JOIN_ROOM" /\ last.role = "broadcaster"
    /\ last.result = "BROADCASTER_EXISTS"
    /\ \E r \in DOMAIN rooms : rooms[r].broadcaster # NoUser

\* C3: no two distinct user ids of the connection registry map to the same session.
C3_OneIdentityPerSession ==
    \A u, v \in DOMAIN connections : connections[u] = connections[v] => u = v

\* C4: every room of the registry has a broadcaster or a viewer, and a chat log
\* exists only for rooms of the registry.
C4_NoEmptyRoomNoOrphanLog ==
    /\ \A r \in DOMAIN rooms : rooms[r].broadcaster # NoUser \/ Len(rooms[r].viewers) > 0
    /\ DOMAIN chatMessages \subseteq DOMAIN rooms

\* a room and its non-empty chat log were removed by the close of its last member
C4_Witness ==
    /\ last.op = "CLOSE" /\ last.userId # NoUser
    /\ nextMsg > 1
    /\ \E r \in RoomIds : ~MapHas(rooms, r) /\ ~MapHas(chatMessages, r)
    /\ \A r \in DOMAIN chatMessages : chatMessages[r] = <<>>

\* C5: a stream_active flag that is true belongs to a room of the registry whose
\* broadcaster is set.
C5_ActiveStreamHasBroadcaster ==
    \A r \in DOMAIN activeStreams :
        activeStreams[r] => (MapHas(rooms, r) /\ rooms[r].broadcaster # NoUser)

\* STREAM_READY from a broadcaster set the flag and told the room's viewer
C5_Witness ==
    /\ last.op = "STREAM_READY"
    /\ \E r \in DOMAIN activeStreams :
          /\ activeStreams[r]
          /\ MapHas(rooms, r)
          /\ rooms[r].broadcaster = currentUserId[last.s]
          /\ Len(rooms[r].viewers) > 0
    /\ \E i \in 1..Len(sent) : sent[i].msg.type = "BROADCASTER_READY"

\* C6: no two distinct Users with the same room id have usernames equal after
\* lowercase folding.
C6_UniqueFoldedUsernames ==
    \A u, v \in DOMAIN users :
        (u # v /\ users[u].roomId = users[v].roomId)
            => toLowerCase(users[u].username) # toLowerCase(users[v].username)

\* a join under a case variant of a seated username was refused
C6_Witness ==
    /\ last.op = "JOIN_ROOM" /\ last.result = "USER_EXISTS"
    /\ \E u, v \in DOMAIN users : u # v /\ users[u].roomId = users[v].roomId

\* the step is the JOIN_ROOM handler run by session last'.s on (roomId, username, last'.role)
IsJoinStep(roomId, username) ==
    /\ last'.op = "JOIN_ROOM"
    /\ JoinRoom(last'.s, roomId, username, last'.role)

\* username equals, ignoring case, the username of a user seated in room roomId
SeatedNameClash(roomId, username) ==
    /\ MapHas(rooms, roomId)
    /\ \E uid \in Seated(roomId) :
          MapHas(users, uid) /\ toLowerCase(users[uid].username) = toLowerCase(username)

\* C7: a JOIN_ROOM naming a room that is not in the registry creates the room only
\* when the role is broadcaster; for every other role it is answered ROOM_NOT_FOUND
\* and the room registry, identity registry and chat logs are unchanged.
C7_AbsentRoomNeedsBroadcaster ==
    [][\A roomId \in RoomIds, username \in Usernames :
          (/\ ~MapHas(rooms, roomId)
           /\ last'.op = "JOIN_ROOM" /\ last'.role # "broadcaster"
           /\ IsJoinStep(roomId, username))
            => /\ sent' = sendMessage(last'.s, ErrorMsg("ROOM_NOT_FOUND"))
               /\ UNCHANGED <<rooms, users, connections, chatMessages>>]_vars

\* C8 as stated: a JOIN_ROOM with role broadcaster on a room that has a broadcaster is
\* answered BROADCASTER_EXISTS, whatever the username.
C8_BroadcasterExistsAnyUsername ==
    [][\A roomId \in RoomIds, username \in Usernames :
          (/\ MapHas(rooms, roomId) /\ rooms[roomId].broadcaster # NoUser
           /\ last'.op = "JOIN_ROOM" /\ last'.role = "broadcaster"
           /\ IsJoinStep(roomId, username))
            => sent' = sendMessage(last'.s, ErrorMsg("BROADCASTER_EXISTS"))]_vars

\* C8 amended: such a JOIN_ROOM is answered BROADCASTER_EXISTS when the username is
\* not taken in that room (ignoring case), and USER_EXISTS when it is.
C8_BroadcasterExistsUnlessNameTaken ==
    [][\A roomId \in RoomIds, username \in Usernames :
          (/\ MapHas(rooms, roomId) /\ rooms[roomId].broadcaster # NoUser
           /\ last'.op = "JOIN_ROOM" /\ last'.role = "broadcaster"
           /\ IsJoinStep(roomId, username))
            => sent' = sendMessage(last'.s,
                          ErrorMsg(IF SeatedNameClash(roomId, username)
                                   THEN "USER_EXISTS" ELSE "BROADCASTER_EXISTS"))]_vars

\* the requester, and nobody else, was answered BROADCASTER_EXISTS
C8_Witness ==
    /\ last.op = "JOIN_ROOM"
    /\ sent = sendMessage(last.s, ErrorMsg("BROADCASTER_EXISTS"))

\* C9: a JOIN_ROOM on an existing room whose username equals, ignoring case, that of
\* a user already in the room is answered USER_EXISTS and seats nobody, for any role.
C9_UserExists ==
    [][\A roomId \in RoomIds, username \in Usernames :
          (/\ last'.op = "JOIN_ROOM"
           /\ SeatedNameClash(roomId, username)
           /\ IsJoinStep(roomId, username))
            => /\ sent' = sendMessage(last'.s, ErrorMsg("USER_EXISTS"))
               /\ UNCHANGED <<rooms, users, connections, currentUserId>>]_vars

\* USER_EXISTS answered to a request for the broadcaster role
C9_Witness ==
    /\ last.op = "JOIN_ROOM" /\ last.role = "broadcaster"
    /\ sent = sendMessage(last.s, ErrorMsg("USER_EXISTS"))

\* C10: a JOIN_ROOM that fails writes exactly one ERROR envelope, to the requesting
\* session, and leaves the registries, stream flags, chat logs and every session's
\* bound identity as they were.
C10_FailedJoinFrame ==
    [][(/\ last'.op = "JOIN_ROOM"
        /\ \/ last'.result # "ok"
           \/ \E i \in 1..Len(sent') : sent'[i].msg.type = "ERROR")
         => /\ Len(sent') = 1
            /\ sent'[1].to = last'.s
            /\ sent'[1].msg.type = "ERROR"
            /\ sent'[1].msg.payload.code \in
                  {"ROOM_NOT_FOUND", "BROADCASTER_EXISTS", "USER_EXISTS", "INVALID_ROLE"}
            /\ UNCHANGED <<rooms, users, connections, activeStreams, chatMessages,
                           currentUserId>>]_vars

\* a session that already has an identity was refused ROOM_NOT_FOUND on a populated server
C10_Witness ==
    /\ last.op = "JOIN_ROOM" /\ last.result = "ROOM_NOT_FOUND"
    /\ Len(sent) = 1 /\ sent[1].to = last.s
    /\ currentUserId[last.s] # NoUser
    /\ DOMAIN activeStreams # {}

\* C11: a JOIN_ROOM whose role is neither broadcaster nor viewer creates no room and
\* seats no identity: every User of the identity registry has role broadcaster or
\* viewer, and every id of a viewers list belongs to a User whose role is viewer.
C11_OnlyProtocolRolesSeated ==
    /\ \A u \in DOMAIN users : users[u].role \in {"broadcaster", "viewer"}
    /\ \A r \in DOMAIN rooms : \A i \in 1..Len(rooms[r].viewers) :
          MapHas(users, rooms[r].viewers[i]) => users[rooms[r].viewers[i]].role = "viewer"

\* C12: every relayed OFFER, ANSWER or ICE_CANDIDATE carries as sender the user id
\* bound to the session that sent it, whatever the client put in sender; type,
\* receiver, roomId and data are forwarded unchanged; the envelopes written are the
\* same for every client-supplied sender.
C12_RelayStep ==
    last'.op \in SignalTypes =>
        /\ \A i \in 1..Len(sent') :
              /\ sent'[i].msg.type = last'.op
              /\ sent'[i].msg.payload.sender = currentUserId[last'.s]
              /\ currentUserId[last'.s] # NoUser
              /\ sent'[i].msg.payload.receiver = last'.receiver
              /\ sent'[i].msg.payload.roomId = last'.roomId
              /\ sent'[i].msg.payload.data = last'.data
        /\ \A other \in ClientSenders :
              relay(last'.s, last'.op, other, last'.receiver, last'.roomId, last'.data)
                 = sent'

C12_RelayStampsSender == [][C12_RelayStep]_vars

\* an OFFER whose client sender field named another identity, for a room the sender is not in,
\* reached another session stamped with the sender's own user id
C12_Witness ==
    /\ last.op = "OFFER" /\ last.sender = 1 /\ currentUserId[last.s] # 1 /\ last.roomId = "q"
    /\ Len(sent) = 1
    /\ sent[1].to # last.s
    /\ sent[1].msg.payload.sender = currentUserId[last.s]
    /\ sent[1].msg.payload.roomId = "q"

\* C13: an OFFER, ANSWER or ICE_CANDIDATE is written to exactly one session, the one
\* owning the receiver id, and only when the sender has an identity and the receiver
\* id maps to a live identity; when the receiver id is unknown or its session has
\* closed nothing is written; no registry changes.
C13_RelayStep ==
    last'.op \in SignalTypes =>
        /\ UNCHANGED <<rooms, users, connections, activeStreams, chatMessages,
                       currentUserId>>
        /\ IF /\ currentUserId[last'.s] # NoUser
              /\ MapHas(users, last'.receiver)
              /\ MapHas(connections, last'.receiver)
              /\ readyState[connections[last'.receiver]] = "OPEN"
           THEN /\ Len(sent') = 1
                /\ sent'[1].to = connections[last'.receiver]
           ELSE sent' = <<>>

C13_RelayOnlyToLiveReceiver == [][C13_RelayStep]_vars

\* every registry, flag and log of the hub, and the bound identities
hub == <<rooms, users, connections, activeStreams, chatMessages, currentUserId>>

BroadcasterReady(user) == [type |-> "BROADCASTER_READY", payload |-> [broadcaster |-> user]]

\* session s is bound to the identity that is the broadcaster of its room
IsRoomBroadcaster(s) ==
    /\ currentUserId[s] # NoUser
    /\ MapHas(users, currentUserId[s])
    /\ MapHas(rooms, users[currentUserId[s]].roomId)
    /\ rooms[users[currentUserId[s]].roomId].broadcaster = currentUserId[s]

\* session t is open and bound to an identity seated as a viewer of room r
IsViewerOf(t, r) ==
    /\ readyState[t] = "OPEN"
    /\ currentUserId[t] # NoUser
    /\ MapHas(rooms, r)
    /\ \E k \in 1..Len(rooms[r].viewers) : rooms[r].viewers[k] = currentUserId[t]

\* the positions of sent' written to session t
WrittenTo(t) == {i \in 1..Len(sent') : sent'[i].to = t}

\* C14: a STREAM_READY from the broadcaster of a room sets that room's stream_active,
\* changes nothing else, and writes exactly one BROADCASTER_READY, carrying the
\* room's broadcaster User, to each session that is a viewer of the room and
\* nothing to any other session; a STREAM_READY from any other session changes no
\* state and writes nothing.
C14_StreamReadyStep ==
    last'.op = "STREAM_READY" =>
        IF IsRoomBroadcaster(last'.s)
        THEN LET me == users[currentUserId[last'.s]] IN
             /\ activeStreams' = MapSet(activeStreams, me.roomId, TRUE)
             /\ UNCHANGED <<rooms, users, connections, chatMessages, currentUserId>>
             /\ \A i \in 1..Len(sent') : sent'[i].msg = BroadcasterReady(me)
             /\ \A t \in DOMAIN readyState :
                   Cardinality(WrittenTo(t)) = IF IsViewerOf(t, me.roomId) THEN 1 ELSE 0
        ELSE /\ UNCHANGED hub
             /\ sent' = <<>>

C14_StreamReady == [][C14_StreamReadyStep]_vars

\* C15: whenever a BROADCASTER_READY is written, the room of the broadcaster it names
\* has stream_active set, that broadcaster holds the room's seat, and the session
\* written to owns a viewer seat of that room; a viewer who joins a room whose
\* stream is not active is written no BROADCASTER_READY.
C15_Step ==
    /\ \A i \in 1..Len(sent') :
          sent'[i].msg.type = "BROADCASTER_READY" =>
              LET b == sent'[i].msg.payload.broadcaster IN
              /\ MapHas(activeStreams', b.roomId) /\ activeStreams'[b.roomId]
              /\ MapHas(rooms', b.roomId) /\ rooms'[b.roomId].broadcaster = b.id
              /\ \E k \in 1..Len(rooms'[b.roomId].viewers) :
                    connections'[rooms'[b.roomId].viewers[k]] = sent'[i].to
    /\ (/\ last'.op = "JOIN_ROOM" /\ last'.result = "ok" /\ last'.role = "viewer"
        /\ LET r == users'[currentUserId'[last'.s]].roomId IN
           ~(MapHas(activeStreams, r) /\ activeStreams[r]))
       => \A i \in 1..Len(sent') : sent'[i].msg.type # "BROADCASTER_READY"

C15_BroadcasterReadyOnlyWhileActive == [][C15_Step]_vars

\* the first broadcaster has left; the viewer who stayed is written BROADCASTER_READY
\* only when the broadcaster who joined afterwards sends STREAM_READY
C15_Witness ==
    /\ last.op = "STREAM_READY"
    /\ ~MapHas(users, 1)
    /\ Len(sent) = 1
    /\ sent[1].msg.type = "BROADCASTER_READY"
    /\ sent[1].msg.payload.broadcaster.id = 3
    /\ sent[1].to = connections[2]
    /\ activeStreams["r"]

\* the step is a successful JOIN_ROOM
JoinedOk == last'.op = "JOIN_ROOM" /\ last'.result = "ok"

\* the room the joiner of a successful JOIN_ROOM step was seated in
JoinedRoom == users'[currentUserId'[last'.s]].roomId

\* C16: a viewer who joins a room whose stream_active is true is written ROOM_JOINED
\* and, as the very next envelope, the BROADCASTER_READY naming the room's
\* broadcaster; every USER_JOINED and ROOM_STATE of the join comes after both.
C16_Step ==
    (/\ JoinedOk /\ last'.role = "viewer"
     /\ MapHas(activeStreams, JoinedRoom) /\ activeStreams[JoinedRoom])
    => /\ Len(sent') >= 2
       /\ sent'[1].to = last'.s /\ sent'[1].msg.type = "ROOM_JOINED"
       /\ sent'[2].to = last'.s
       /\ sent'[2].msg = BroadcasterReady(users'[rooms'[JoinedRoom].broadcaster])
       /\ rooms'[JoinedRoom].broadcaster # NoUser
       /\ \A i \in 3..Len(sent') : sent'[i].msg.type \in {"USER_JOINED", "ROOM_STATE"}

C16_LateViewerNotified == [][C16_Step]_vars

\* a viewer joined a streaming room that already had another viewer
C16_Witness ==
    /\ last.op = "JOIN_ROOM" /\ last.result = "ok" /\ last.role = "viewer"
    /\ Len(sent) = 7
    /\ sent[2].to = last.s
    /\ sent[2].msg.type = "BROADCASTER_READY"
    /\ sent[2].msg.payload.broadcaster.role = "broadcaster"
    /\ sent[3].msg.type = "USER_JOINED"
    /\ \A i \in 3..Len(sent) : sent[i].msg.type # "BROADCASTER_READY"

\* C17: a VIEWER_READY from a session whose identity has role viewer, in a room that
\* has a broadcaster, writes exactly one VIEWER_READY, to the session of that
\* broadcaster, carrying the sender's User, whether or not stream_active is set; from
\* any other session it writes nothing; in no case does it change hub state.
C17_Step ==
    last'.op = "VIEWER_READY" =>
        LET cur == currentUserId[last'.s] IN
        /\ UNCHANGED hub
        /\ IF /\ cur # NoUser /\ MapHas(users, cur) /\ users[cur].role = "viewer"
              /\ MapHas(rooms, users[cur].roomId)
              /\ rooms[users[cur].roomId].broadcaster # NoUser
           THEN sent' = <<[to  |-> connections[rooms[users[cur].roomId].broadcaster],
                           msg |-> [type |-> "VIEWER_READY",
                                    payload |-> [viewer |-> users[cur]]]]>>
           ELSE sent' = <<>>

C17_ViewerReadyForwarded == [][C17_Step]_vars

\* a viewer's VIEWER_READY reached the broadcaster's session while no stream was active
C17_Witness ==
    /\ last.op = "VIEWER_READY"
    /\ Len(sent) = 1
    /\ sent[1].to # last.s
    /\ sent[1].msg.type = "VIEWER_READY"
    /\ sent[1].msg.payload.viewer.id = currentUserId[last.s]
    /\ sent[1].msg.payload.viewer.role = "viewer"
    /\ ~MapHas(activeStreams, sent[1].msg.payload.viewer.roomId)

\* C18: a STREAM_READY from the broadcaster of a room whose stream_active is already
\* set leaves every registry and the flag as they were, and each BROADCASTER_READY
\* it writes carries the broadcaster's User; a stored User never changes, so the
\* payload equals that of the first STREAM_READY.
C18_Step ==
    /\ \A u \in DOMAIN users : MapHas(users', u) => users'[u] = users[u]
    /\ (last'.op = "STREAM_READY" /\ last'.wasActive) =>
          /\ UNCHANGED hub
          /\ \A i \in 1..Len(sent') :
                sent'[i].msg = BroadcasterReady(users[currentUserId[last'.s]])

C18_StreamReadyIdempotent == [][C18_Step]_vars

\* a second STREAM_READY has notified the room's viewer again
C18_Witness ==
    /\ last.op = "STREAM_READY" /\ last.wasActive
    /\ Len(sent) >= 1
    /\ sent[1].msg.type = "BROADCASTER_READY"
    /\ sent[1].msg.payload.broadcaster.id = currentUserId[last.s]

\* C19: the first envelope of a successful JOIN_ROOM is the ROOM_JOINED to the joining
\* session and no other envelope of any step is a ROOM_JOINED; a session that has
\* never joined is written USER_JOINED, ROOM_STATE or BROADCASTER_READY only by
\* its own join, after that ROOM_JOINED; a session gets an identity only by its
\* own successful join.
C19_Step ==
    /\ JoinedOk => /\ Len(sent') >= 1
                   /\ sent'[1].to = last'.s
                   /\ sent'[1].msg.type = "ROOM_JOINED"
    /\ \A i \in 1..Len(sent') :
          /\ sent'[i].msg.type = "ROOM_JOINED" => JoinedOk /\ i = 1
          /\ (/\ sent'[i].msg.type \in {"USER_JOINED", "ROOM_STATE", "BROADCASTER_READY"}
              /\ currentUserId[sent'[i].to] = NoUser)
             => JoinedOk /\ sent'[i].to = last'.s /\ i > 1
    /\ \A t \in DOMAIN currentUserId :
          currentUserId'[t] # currentUserId[t] => JoinedOk /\ t = last'.s

C19_RoomJoinedFirst == [][C19_Step]_vars

\* a second member joined: ROOM_JOINED to the joiner, USER_JOINED to the member who
\* was there, then the joiner's ROOM_STATE
C19_Witness ==
    /\ last.op = "JOIN_ROOM" /\ last.result = "ok"
    /\ Len(sent) = 4
    /\ sent[1].to = last.s /\ sent[1].msg.type = "ROOM_JOINED"
    /\ sent[2].to # last.s /\ sent[2].msg.type = "USER_JOINED"
    /\ \E i \in 3..4 : sent[i].to = last.s /\ sent[i].msg.type = "ROOM_STATE"

\* the sessions, other than the joiner's, bound to a member of room r after the step
OtherMemberSessions(r) ==
    {t \in DOMAIN readyState :
        /\ t # last'.s
        /\ readyState[t] = "OPEN"
        /\ currentUserId'[t] # NoUser
        /\ MapHas(users', currentUserId'[t])
        /\ users'[currentUserId'[t]].roomId = r}

\* the positions of sent' holding an envelope of the given type for session t
WrittenOfType(t, type) == {i \in WrittenTo(t) : sent'[i].msg.type = type}

\* C20: a successful JOIN_ROOM writes USER_JOINED, carrying the new User, exactly once
\* to the session of every other member of the room and never to the joining
\* session, and writes ROOM_STATE, whose snapshot lists the joiner, exactly once to
\* the session of every member including the joiner, and to no other session.
C20_Step ==
    JoinedOk =>
        LET joiner == users'[currentUserId'[last'.s]] IN
        /\ \A i \in 1..Len(sent') :
              /\ sent'[i].msg.type = "USER_JOINED" => sent'[i].msg.payload.user = joiner
              /\ sent'[i].msg.type = "ROOM_STATE" =>
                    \E k \in 1..Len(sent'[i].msg.payload.room.users) :
                        sent'[i].msg.payload.room.users[k] = joiner
        /\ \A t \in DOMAIN readyState :
              /\ Cardinality(WrittenOfType(t, "USER_JOINED")) =
                    IF t \in OtherMemberSessions(joiner.roomId) THEN 1 ELSE 0
              /\ Cardinality(WrittenOfType(t, "ROOM_STATE")) =
                    IF t = last'.s \/ t \in OtherMemberSessions(joiner.roomId) THEN 1 ELSE 0

C20_JoinFanOut == [][C20_Step]_vars

\* the types of the envelopes of the step written to session t, in order,
\* BROADCASTER_READY left out
Received(t) ==
    LET mine == SelectSeq(sent', LAMBDA e : e.to = t /\ e.msg.type # "BROADCASTER_READY")
    IN [i \in 1..Len(mine) |-> mine[i].msg.type]

Repeat(x, n) == [i \in 1..n |-> x]

\* the number of seats of room r that connections maps to session t before the step
SeatsOf(t, r) ==
    Cardinality({i \in 1..Len(memberIds(rooms[r])) :
                    /\ MapHas(connections, memberIds(rooms[r])[i])
                    /\ connections[memberIds(rooms[r])[i]] = t})

\* the step is a successful JOIN_ROOM of a viewer into a room that had a broadcaster
ViewerJoinedBroadcast ==
    /\ JoinedOk /\ last'.role = "viewer"
    /\ MapHas(rooms, JoinedRoom) /\ rooms[JoinedRoom].broadcaster # NoUser

\* C21 as stated: when a viewer joins a room that has a broadcaster, the joining session
\* receives ROOM_JOINED, then USER_JOINED, then ROOM_STATE, and the broadcaster's
\* session receives USER_JOINED and then ROOM_STATE.
C21_JoinerReceivesUserJoined ==
    [][ViewerJoinedBroadcast =>
          /\ Received(last'.s) = <<"ROOM_JOINED", "USER_JOINED", "ROOM_STATE">>
          /\ LET b == connections[rooms[JoinedRoom].broadcaster] IN
             b # last'.s => Received(b) = <<"USER_JOINED", "ROOM_STATE">>]_vars

\* C21 amended: the joining session receives ROOM_JOINED and then ROOM_STATE; it is
\* written a USER_JOINED (and one more ROOM_STATE) only for each seat of the room
\* that an earlier join of the same session still holds, none when it joins for the
\* first time; the broadcaster's session receives USER_JOINED for the new viewer
\* and then ROOM_STATE, once per seat it holds.
C21_Step ==
    ViewerJoinedBroadcast =>
        LET r == JoinedRoom
            b == connections[rooms[r].broadcaster]
        IN
        /\ Received(last'.s) = <<"ROOM_JOINED">>
                                  \o Repeat("USER_JOINED", SeatsOf(last'.s, r))
                                  \o Repeat("ROOM_STATE", SeatsOf(last'.s, r) + 1)
        /\ b # last'.s => /\ SeatsOf(b, r) >= 1
                          /\ Received(b) = Repeat("USER_JOINED", SeatsOf(b, r))
                                              \o Repeat("ROOM_STATE", SeatsOf(b, r))
        /\ \A i \in 1..Len(sent') :
              sent'[i].msg.type = "USER_JOINED" =>
                  sent'[i].msg.payload.user = users'[currentUserId'[last'.s]]

C21_ViewerJoinOrder == [][C21_Step]_vars

\* a viewer joined for the first time: ROOM_JOINED to it, USER_JOINED and ROOM_STATE to
\* the broadcaster's session, ROOM_STATE to it, and no USER_JOINED to it
C21_Witness ==
    /\ last.op = "JOIN_ROOM" /\ last.result = "ok" /\ last.role = "viewer"
    /\ Len(sent) = 4
    /\ sent[1].to = last.s /\ sent[1].msg.type = "ROOM_JOINED"
    /\ sent[2].to = connections[rooms["r"].broadcaster] /\ sent[2].to # last.s
    /\ sent[2].msg.type = "USER_JOINED"
    /\ sent[2].msg.payload.user.id = currentUserId[last.s]
    /\ sent[3].to = sent[2].to /\ sent[3].msg.type = "ROOM_STATE"
    /\ sent[4].to = last.s /\ sent[4].msg.type = "ROOM_STATE"

\* the chat entry a CHAT_MESSAGE step appended to the log of the sender's room
MintedEntry ==
    LET log == chatMessages'[users[currentUserId[last'.s]].roomId] IN log[Len(log)]

\* the step is a CHAT_MESSAGE from a session whose identity is stored
ChatAccepted ==
    /\ last'.op = "CHAT_MESSAGE"
    /\ currentUserId[last'.s] # NoUser
    /\ MapHas(users, currentUserId[last'.s])

\* the chat request of the step is a private message with a recipient
IsPrivate == last'.kind = "private" /\ last'.recipientId # NoUser

\* C22: a private CHAT_MESSAGE whose recipient id names a live identity writes exactly
\* one CHAT_MESSAGE_RECEIVED carrying the minted entry to the recipient's session,
\* exactly one to the sender's session, and none to any other session; no session
\* is written two copies.
C22_Step ==
    (/\ ChatAccepted /\ IsPrivate
     /\ MapHas(users, last'.recipientId) /\ MapHas(connections, last'.recipientId)
     /\ readyState[connections[last'.recipientId]] = "OPEN")
    => /\ \A i \in 1..Len(sent') :
             sent'[i].msg = [type |-> "CHAT_MESSAGE_RECEIVED",
                             payload |-> [message |-> MintedEntry]]
       /\ \A t \in DOMAIN readyState :
             Cardinality(WrittenTo(t)) =
                IF t = last'.s \/ t = connections[last'.recipientId] THEN 1 ELSE 0

C22_PrivateDelivery == [][C22_Step]_vars

\* session t is open and bound to a stored identity of room r
IsMemberSession(t, r) ==
    /\ readyState[t] = "OPEN"
    /\ currentUserId[t] # NoUser
    /\ MapHas(users, currentUserId[t])
    /\ users[currentUserId[t]].roomId = r

\* C23: a CHAT_MESSAGE that is not a private message with a recipient appends the
\* minted entry (sender id, sender username, room, content, kind) to the chat log
\* of the sender's room and writes exactly one CHAT_MESSAGE_RECEIVED carrying it
\* to the session of every member of that room, the sender's included, and to no
\* other session.
C23_Step ==
    (ChatAccepted /\ ~IsPrivate) =>
        LET me == users[currentUserId[last'.s]] IN
        /\ MapHas(chatMessages, me.roomId)
        /\ Len(chatMessages'[me.roomId]) = Len(chatMessages[me.roomId]) + 1
        /\ SubSeq(chatMessages'[me.roomId], 1, Len(chatMessages[me.roomId])) =
              chatMessages[me.roomId]
        /\ MintedEntry.senderId = me.id /\ MintedEntry.senderUsername = me.username
        /\ MintedEntry.roomId = me.roomId /\ MintedEntry.content = last'.content
        /\ MintedEntry.type = last'.kind
        /\ \A i \in 1..Len(sent') :
              sent'[i].msg = [type |-> "CHAT_MESSAGE_RECEIVED",
                              payload |-> [message |-> MintedEntry]]
        /\ \A t \in DOMAIN readyState :
              Cardinality(WrittenTo(t)) = IF IsMemberSession(t, me.roomId) THEN 1 ELSE 0

C23_PublicFanOut == [][C23_Step]_vars

\* the step is the close of a session whose identity is stored and seated in a room
ClosedMember ==
    /\ last'.op = "CLOSE"
    /\ last'.userId # NoUser
    /\ MapHas(users, last'.userId)
    /\ MapHas(rooms, users[last'.userId].roomId)

\* the sessions, other than the closing one, that are members of room r
RemainingSessions(r) ==
    {t \in DOMAIN readyState : t # last'.s /\ IsMemberSession(t, r)}

\* the envelopes of the step written to session t, in order
EnvelopesTo(t) == SelectSeq(sent', LAMBDA e : e.to = t)

\* C24: when a joined session closes, every session of a remaining member of its room
\* is written exactly one USER_LEFT, carrying the departed User and a snapshot of
\* the room that does not list the departed user, followed by exactly one
\* ROOM_STATE; nothing is written to the closing session or to any other session;
\* when no member remains nothing is written at all.
C24_Step ==
    ClosedMember =>
        LET gone == users[last'.userId] IN
        \A t \in DOMAIN readyState :
            IF t \in RemainingSessions(gone.roomId)
            THEN /\ Len(EnvelopesTo(t)) = 2
                 /\ EnvelopesTo(t)[1].msg.type = "USER_LEFT"
                 /\ EnvelopesTo(t)[1].msg.payload.user = gone
                 /\ \A k \in 1..Len(EnvelopesTo(t)[1].msg.payload.room.users) :
                       EnvelopesTo(t)[1].msg.payload.room.users[k] # gone
                 /\ EnvelopesTo(t)[2].msg.type = "ROOM_STATE"
            ELSE EnvelopesTo(t) = <<>>

C24_CloseFanOut == [][C24_Step]_vars

\* the room of the closing member with that member's seat vacated
Vacated ==
    LET gone == users[last'.userId]
        room == rooms[gone.roomId]
    IN IF room.broadcaster = gone.id
       THEN [room EXCEPT !.broadcaster = NoUser]
       ELSE [room EXCEPT !.viewers = SelectSeq(@, LAMBDA id : id # gone.id)]

\* every room other than r, its flag and its chat log are as before the step
OtherRoomsUnchanged(r) ==
    \A q \in (DOMAIN rooms \cup DOMAIN rooms' \cup DOMAIN chatMessages
              \cup DOMAIN chatMessages' \cup DOMAIN activeStreams
              \cup DOMAIN activeStreams') \ {r} :
        /\ MapHas(rooms', q) = MapHas(rooms, q)
        /\ MapHas(rooms, q) => rooms'[q] = rooms[q]
        /\ MapHas(chatMessages', q) = MapHas(chatMessages, q)
        /\ MapHas(chatMessages, q) => chatMessages'[q] = chatMessages[q]
        /\ MapHas(activeStreams', q) = MapHas(activeStreams, q)
        /\ MapHas(activeStreams, q) => activeStreams'[q] = activeStreams[q]

\* room r has no true stream flag after the step
StreamOff(r) == ~(MapHas(activeStreams', r) /\ activeStreams'[r])

\* C25 as stated: when the broadcaster's session closes while viewers remain the room
\* stays with broadcaster absent, stream_active false, viewers and chat log
\* unchanged; when a viewer's session closes the room's broadcaster, stream_active,
\* chat log and the order of the remaining viewers are unchanged; no other room is
\* changed by a close.
C25_StepAsStated ==
    ClosedMember =>
        LET gone == users[last'.userId]
            r == gone.roomId
        IN
        /\ OtherRoomsUnchanged(r)
        /\ (gone.role = "broadcaster" /\ Len(rooms[r].viewers) > 0) =>
              /\ MapHas(rooms', r) /\ rooms'[r].broadcaster = NoUser
              /\ rooms'[r].viewers = rooms[r].viewers
              /\ StreamOff(r)
              /\ MapHas(chatMessages', r) /\ chatMessages'[r] = chatMessages[r]
        /\ gone.role = "viewer" =>
              /\ MapHas(rooms', r) /\ rooms'[r].broadcaster = rooms[r].broadcaster
              /\ rooms'[r].viewers = SelectSeq(rooms[r].viewers, LAMBDA id : id # gone.id)
              /\ activeStreams' = activeStreams
              /\ MapHas(chatMessages', r) /\ chatMessages'[r] = chatMessages[r]

C25_CloseKeepsRoom == [][C25_StepAsStated]_vars

\* C25 amended: a close that leaves a seat taken in the room keeps the room with only
\* the closing member's seat vacated (the other viewers in their order) and the
\* chat log unchanged; a close that leaves no seat taken removes the room and its
\* chat log; the broadcaster's close leaves stream_active false, a viewer's close
\* leaves every flag as it was; no other room is changed; the close of a session
\* without an identity changes nothing.
C25_Step ==
    /\ (last'.op = "CLOSE" /\ last'.userId = NoUser) => UNCHANGED hub
    /\ ClosedMember =>
          LET gone == users[last'.userId]
              r == gone.roomId
          IN
          /\ OtherRoomsUnchanged(r)
          /\ IF Vacated.broadcaster = NoUser /\ Len(Vacated.viewers) = 0
             THEN ~MapHas(rooms', r) /\ ~MapHas(chatMessages', r)
             ELSE /\ MapHas(rooms', r) /\ rooms'[r] = Vacated
                  /\ MapHas(chatMessages', r) /\ chatMessages'[r] = chatMessages[r]
          /\ rooms[r].broadcaster = gone.id => StreamOff(r)
          /\ rooms[r].broadcaster # gone.id => activeStreams' = activeStreams

C25_CloseFrame == [][C25_Step]_vars

\* the broadcaster's session closed while two viewers and a chat entry remain
C25_Witness ==
    /\ last.op = "CLOSE" /\ last.userId = 1
    /\ MapHas(rooms, "r") /\ rooms["r"].broadcaster = NoUser
    /\ rooms["r"].viewers = <<2, 3>>
    /\ ~MapHas(activeStreams, "r")
    /\ Len(chatMessages["r"]) = 1
    /\ ~MapHas(users, 1)

\* C26 (in a specification whose only room is "r", where a session has joined r
\* exactly when it is bound to an identity): once every session that has joined r
\* has closed, r is not in the room registry, GET /api/rooms does not list it and
\* the chat-history read for r returns the empty list.
C26_EmptiedRoomRemoved ==
    (/\ \E t \in DOMAIN currentUserId : currentUserId[t] # NoUser
     /\ \A t \in DOMAIN currentUserId :
           currentUserId[t] # NoUser => readyState[t] = "CLOSED")
    => /\ ~MapHas(rooms, "r")
       /\ \A q \in DOMAIN rooms : rooms[q].id # "r"
       /\ getRoomMessages(chatMessages, "r", DefaultLimit) = <<>>

\* C27: the close handler run a second time for a session changes no registry, room,
\* flag or chat log and writes no envelope.
C27_Step ==
    last'.op = "CLOSE_AGAIN" =>
        /\ UNCHANGED hub
        /\ sent' = <<>>

C27_CloseIdempotent == [][C27_Step]_vars

\* the handler ran again for a session that had joined a room in which another open
\* session is still a member
C27_Witness ==
    /\ last.op = "CLOSE_AGAIN"
    /\ last.userId # NoUser
    /\ ~MapHas(users, last.userId)
    /\ sent = <<>>
    /\ \E t \in DOMAIN readyState :
          /\ readyState[t] = "OPEN"
          /\ currentUserId[t] # NoUser
          /\ MapHas(users, currentUserId[t])
          /\ MapHas(rooms, users[currentUserId[t]].roomId)

\* the envelope types other than JOIN_ROOM
OtherTypes ==
    {"CHAT_MESSAGE", "STREAM_READY", "VIEWER_READY", "LEAVE_ROOM"} \cup SignalTypes

\* C28: an envelope other than JOIN_ROOM from a session without an identity changes no
\* registry, flag, chat log or id counter and writes nothing; the session stays open
\* and without an identity, so a JOIN_ROOM from it is handled as before the step
\* (JoinRoomOk and JoinRoomFail read the registries and the open state only).
C28_Step ==
    (last'.op \in OtherTypes /\ currentUserId[last'.s] = NoUser) =>
        /\ UNCHANGED hub
        /\ UNCHANGED <<nextId, nextMsg>>
        /\ sent' = <<>>
        /\ readyState[last'.s] = "OPEN" /\ readyState'[last'.s] = "OPEN"
        /\ currentUserId'[last'.s] = NoUser

C28_PreJoinIgnored == [][C28_Step]_vars

\* a session that never joined sent an ICE_CANDIDATE addressed to a connected identity
C28_Witness ==
    /\ last.op = "ICE_CANDIDATE"
    /\ currentUserId[last.s] = NoUser
    /\ readyState[last.s] = "OPEN"
    /\ MapHas(connections, last.receiver)
    /\ readyState[connections[last.receiver]] = "OPEN"
    /\ sent = <<>>

\* the last m entries of log, in append order
LastEntries(log, m) == [i \in 1..m |-> log[Len(log) - m + i]]

\* the smaller of two integers, and never less than 0
Capped(limit, n) == IF limit < 0 THEN 0 ELSE IF limit < n THEN limit ELSE n

\* C29: the messages list of ROOM_JOINED is the last min(50, n) entries, in append
\* order, of the chat log the joined room had when the JOIN_ROOM arrived, n being
\* that log's length; it is empty for a room created by the join.
C29_Step ==
    JoinedOk =>
        LET log == IF MapHas(rooms, JoinedRoom) THEN chatMessages[JoinedRoom] ELSE <<>> IN
        /\ sent'[1].msg.type = "ROOM_JOINED"
        /\ sent'[1].msg.payload.messages = LastEntries(log, Capped(50, Len(log)))

C29_JoinHistory == [][C29_Step]_vars

\* a viewer joined a room whose log held 51 entries and was sent entries 2 to 51
C29_Witness ==
    /\ last.op = "JOIN_ROOM" /\ last.result = "ok"
    /\ MapHas(chatMessages, "r") /\ Len(chatMessages["r"]) = 51
    /\ sent[1].msg.type = "ROOM_JOINED"
    /\ sent[1].msg.payload.room.id = "r"
    /\ Len(sent[1].msg.payload.messages) = 50
    /\ sent[1].msg.payload.messages[1].id = 2
    /\ sent[1].msg.payload.messages[50].id = 51

\* C30: for every room id and every integer limit N the chat tail read returns at most
\* N entries, the most recent of the room's log in append order; with no limit it
\* returns at most 50; for a room id that is not in the registry it returns the
\* empty list.
C30_Step ==
    last'.op = "GET_MESSAGES" =>
        LET log == IF MapHas(rooms, last'.roomId) /\ MapHas(chatMessages, last'.roomId)
                   THEN chatMessages[last'.roomId] ELSE <<>>
            limit == IF last'.query = <<>> THEN 50 ELSE last'.query[1]
        IN last'.result = LastEntries(log, Capped(limit, Len(log)))

C30_TailRead == [][C30_Step]_vars

\* ---------------------------------------------------------------- program order
\* the events of one handler run in the order the statements execute: a mutation of
\* a registry, or the write of one envelope
mutation(registry) == <<[kind |-> "mutation", on |-> registry]>>

writes(envelopes) == [i \in 1..Len(envelopes) |-> [kind |-> "send", env |-> envelopes[i]]]

\* the close handler for session s: activeStreams.delete, the unseat, the USER_LEFT
\* broadcast, then rooms.delete and chatMessages.delete or the ROOM_STATE
\* broadcast, then users.delete and connections.delete
closeOrder(s) ==
    LET cur == currentUserId[s] IN
    IF cur = NoUser THEN <<>>
    ELSE (IF ~MapHas(users, cur) THEN <<>>
          ELSE LET user == users[cur] IN
               (IF user.role = "broadcaster" THEN mutation("activeStreams") ELSE <<>>)
               \o (IF ~MapHas(rooms, user.roomId) THEN <<>>
                   ELSE LET room == rooms[user.roomId]
                            room1 == IF user.role = "broadcaster"
                                     THEN [room EXCEPT !.broadcaster = NoUser]
                                     ELSE [room EXCEPT !.viewers =
                                              SelectSeq(@, LAMBDA id : id # cur)]
                            rooms1 == MapSet(rooms, user.roomId, room1)
                            roomWithUsers == getRoomWithUsers(rooms1, users, user.roomId)
                        IN mutation("rooms")
                           \o writes(broadcastToRoom(rooms1, connections, user.roomId,
                                        [type |-> "USER_LEFT",
                                         payload |-> [user |-> user,
                                                      room |-> roomWithUsers]], cur))
                           \o (IF isEmptyRoom(room1)
                               THEN mutation("rooms") \o mutation("chatMessages")
                               ELSE writes(broadcastToRoom(rooms1, connections, user.roomId,
                                              [type |-> "ROOM_STATE",
                                               payload |-> [room |-> roomWithUsers]],
                                              NoUser)))))
         \o mutation("users") \o mutation("connections")

\* the events of the step just taken.  JOIN_ROOM stores the room, the chat log, the
\* seat, the user and the connection and then writes its envelopes; CHAT_MESSAGE
\* appends to the log and then delivers; STREAM_READY sets the flag and then
\* notifies; the other envelope types mutate nothing
stepOrder ==
    IF last'.op \in {"CLOSE", "CLOSE_AGAIN"} THEN closeOrder(last'.s)
    ELSE IF last'.op = "JOIN_ROOM" /\ last'.result = "ok"
    THEN (IF rooms' # rooms /\ DOMAIN rooms' # DOMAIN rooms
          THEN mutation("rooms") \o mutation("chatMessages") ELSE <<>>)
         \o mutation("rooms") \o mutation("users") \o mutation("connections")
         \o writes(sent')
    ELSE IF last'.op = "CHAT_MESSAGE" /\ nextMsg' # nextMsg
    THEN mutation("chatMessages") \o writes(sent')
    ELSE IF last'.op = "STREAM_READY" /\ ~streamReadyIgnored(last'.s)
    THEN mutation("activeStreams") \o writes(sent')
    ELSE writes(sent')

\* C31 (its closing clause): in every step every mutation of the room registry, the
\* identity registry, the stream flags and the chat logs comes before the first
\* envelope the step writes: no envelope is written between two mutations.
C31_Step ==
    /\ SelectSeq(stepOrder, LAMBDA e : e.kind = "send") = writes(sent')
    /\ hub' # hub => \E i \in 1..Len(stepOrder) : stepOrder[i].kind = "mutation"
    /\ \A i, j \in 1..Len(stepOrder) :
          (stepOrder[i].kind = "send" /\ stepOrder[j].kind = "mutation") => j < i

C31_MutationsBeforeSends == [][C31_Step]_vars

\* C32: every chat entry a CHAT_MESSAGE step stores or delivers carries the id, the
\* username and the room of the identity bound to the sending session, whatever
\* sender fields the client put in the payload; it is appended to the log of
\* that identity's room and no other log changes.
C32_Step ==
    ChatAccepted =>
        LET me == users[currentUserId[last'.s]]
            log == IF MapHas(chatMessages, me.roomId) THEN chatMessages[me.roomId] ELSE <<>>
        IN
        /\ MintedEntry.senderId = me.id
        /\ MintedEntry.senderUsername = me.username
        /\ MintedEntry.roomId = me.roomId
        /\ chatMessages' = MapSet(chatMessages, me.roomId, Append(log, MintedEntry))
        /\ \A i \in 1..Len(sent') :
              /\ sent'[i].msg.type = "CHAT_MESSAGE_RECEIVED"
              /\ sent'[i].msg.payload.message = MintedEntry

C32_ChatEntryBoundToSender == [][C32_Step]_vars

\* a private message from user 2 of room q reached user 1 of room r and sits in
\* the log of q alone
C32_Witness ==
    /\ last.op = "CHAT_MESSAGE" /\ last.userId = 2 /\ last.kind = "private"
    /\ MapHas(users, 2) /\ users[2].roomId = "q"
    /\ MapHas(users, 1) /\ users[1].roomId = "r"
    /\ Len(chatMessages["q"]) = 1 /\ chatMessages["q"][1].senderId = 2
    /\ chatMessages["q"][1].roomId = "q"
    /\ chatMessages["r"] = <<>>
    /\ Len(sent) = 2 /\ sent[1].msg.payload.message = chatMessages["q"][1]

\* C33: every chat entry stored in a chat log has a recipient id exactly when its
\* kind is private.
C33_RecipientIffPrivate ==
    \A r \in DOMAIN chatMessages :
        \A i \in 1..Len(chatMessages[r]) :
            (chatMessages[r][i].recipientId # NoUser) <=> (chatMessages[r][i].type = "private")

\* the seats user id u occupies: <<r, 0>> for the broadcaster seat of room r,
\* <<r, i>> for the i-th entry of its viewers list
seatsOf(u) ==
    {<<r, 0>> : r \in {q \in DOMAIN rooms : rooms[q].broadcaster = u}}
    \cup UNION {{<<r, i>> : i \in {k \in 1..Len(rooms[r].viewers) : rooms[r].viewers[k] = u}} :
                   r \in DOMAIN rooms}

\* C34: every User of the identity registry occupies exactly one seat, in the room
\* its roomId names: the broadcaster seat for role broadcaster, one entry of the
\* viewers list for role viewer; no id occupies two seats (two rooms, two
\* entries of a viewers list, or a broadcaster seat and a viewers entry).
C34_OneSeatPerUser ==
    /\ \A u \in DOMAIN users :
          /\ users[u].id = u
          /\ Cardinality(seatsOf(u)) = 1
          /\ \A seat \in seatsOf(u) : seat[1] = users[u].roomId
          /\ users[u].role = "broadcaster" => seatsOf(u) = {<<users[u].roomId, 0>>}
          /\ users[u].role = "viewer" => <<users[u].roomId, 0>> \notin seatsOf(u)
    /\ \A u \in 1..nextId : Cardinality(seatsOf(u)) <= 1

\* a close has removed a member; room r keeps its broadcaster and room q its viewer
C34_Witness ==
    /\ last.op = "CLOSE" /\ last.userId # NoUser /\ ~MapHas(users, last.userId)
    /\ MapHas(rooms, "r") /\ MapHas(rooms, "q")
    /\ rooms["r"].broadcaster # NoUser /\ rooms["r"].viewers = <<>>
    /\ rooms["q"].broadcaster = NoUser /\ Len(rooms["q"].viewers) = 1
    /\ Cardinality(DOMAIN users) = 2

\* session t holds the connection of identity u after the step
Owns(t, u) == MapHas(connections', u) /\ connections'[u] = t

\* entry is a private chat entry with a recipient, and session t owns neither its
\* sender nor its recipient
Undue(entry, t) ==
    /\ entry.type = "private" /\ entry.recipientId # NoUser
    /\ ~Owns(t, entry.senderId) /\ ~Owns(t, entry.recipientId)

\* C35: no step discloses a private chat entry to a session that owns neither the
\* entry's sender nor its recipient, be it in a CHAT_MESSAGE_RECEIVED or in
\* the messages list of a ROOM_JOINED, and no chat-history read returns one.
C35_Step ==
    /\ \A i \in 1..Len(sent') :
          /\ sent'[i].msg.type = "CHAT_MESSAGE_RECEIVED" =>
                ~Undue(sent'[i].msg.payload.message, sent'[i].to)
          /\ sent'[i].msg.type = "ROOM_JOINED" =>
                \A k \in 1..Len(sent'[i].msg.payload.messages) :
                    ~Undue(sent'[i].msg.payload.messages[k], sent'[i].to)
    /\ last'.op = "GET_MESSAGES" =>
          \A k \in 1..Len(last'.result) : last'.result[k].type # "private"

C35_PrivateNotDisclosed == [][C35_Step]_vars

\* C36: whenever a room's stream flag is true, every id in the room's viewers list
\* has been sent, since it joined, a BROADCASTER_READY naming the room's
\* broadcaster.
C36_NoViewerLeftWaiting ==
    \A r \in DOMAIN rooms :
        (MapHas(activeStreams, r) /\ activeStreams[r]) =>
            \A i \in 1..Len(rooms[r].viewers) : rooms[r].viewers[i] \in notified

\* user id u is stored and seated in room r before the step
IsMemberOf(u, r) == MapHas(users, u) /\ users[u].roomId = r /\ seatsOf(u) # {}

\* C37: a private CHAT_MESSAGE is written to a session other than the sender's only
\* when its recipient id is a member of the sender's room; a recipient id of a
\* user of another room causes no write to that user's session.
C37_Step ==
    (ChatAccepted /\ IsPrivate) =>
        \A i \in 1..Len(sent') :
            sent'[i].to # last'.s =>
                IsMemberOf(last'.recipientId, users[currentUserId[last'.s]].roomId)

C37_PrivateWithinRoom == [][C37_Step]_vars

\* C38: an OFFER, ANSWER or ICE_CANDIDATE is written to a session other than the
\* sender's only when its receiver id is a member of the room of the sending
\* session's identity; a receiver id of a user of another room causes no write.
C38_Step ==
    last'.op \in SignalTypes =>
        \A i \in 1..Len(sent') :
            sent'[i].to # last'.s =>
                /\ MapHas(users, last'.userId)
                /\ IsMemberOf(last'.receiver, users[last'.userId].roomId)

C38_RelayWithinRoom == [][C38_Step]_vars

\* the envelope is room-scoped fan-out: ROOM_STATE, USER_JOINED, USER_LEFT,
\* BROADCASTER_READY, or the CHAT_MESSAGE_RECEIVED of a broadcast entry
IsFanOut(msg) ==
    \/ msg.type \in {"ROOM_STATE", "USER_JOINED", "USER_LEFT", "BROADCASTER_READY"}
    \/ /\ msg.type = "CHAT_MESSAGE_RECEIVED"
       /\ ~(msg.payload.message.type = "private" /\ msg.payload.message.recipientId # NoUser)

\* the room a fan-out envelope is about
FanOutRoom(msg) ==
    IF msg.type = "ROOM_STATE" THEN msg.payload.room.id
    ELSE IF msg.type = "BROADCASTER_READY" THEN msg.payload.broadcaster.roomId
    ELSE IF msg.type = "CHAT_MESSAGE_RECEIVED" THEN msg.payload.message.roomId
    ELSE msg.payload.user.roomId

\* C39: the room-scoped fan-out of a step for room r is written only to sessions that
\* are open and whose bound identity is stored and seated in r when the step
\* writes; a session of another room, without an identity, or closed is not
\* written to.
C39_Step ==
    \A i \in 1..Len(sent') :
        IsFanOut(sent'[i].msg) =>
            LET t == sent'[i].to
                r == FanOutRoom(sent'[i].msg)
            IN /\ readyState'[t] = "OPEN"
               /\ currentUserId'[t] # NoUser
               /\ MapHas(users', currentUserId'[t])
               /\ users'[currentUserId'[t]].roomId = r
               /\ MapHas(rooms', r)
               /\ \/ rooms'[r].broadcaster = currentUserId'[t]
                  \/ \E k \in 1..Len(rooms'[r].viewers) :
                        rooms'[r].viewers[k] = currentUserId'[t]

C39_FanOutOnlyToMembers == [][C39_Step]_vars

\* the snapshots of room r the step wrote to session t, in order
SnapshotsTo(t, r) ==
    SelectSeq(sent', LAMBDA e : /\ e.to = t
                                /\ e.msg.type \in {"ROOM_STATE", "ROOM_JOINED"}
                                /\ e.msg.payload.room.id = r)

\* session t is open after the step and its bound identity is stored and seated in r
MemberAfter(t, r) ==
    /\ readyState'[t] = "OPEN"
    /\ currentUserId'[t] # NoUser
    /\ MapHas(users', currentUserId'[t])
    /\ users'[currentUserId'[t]].roomId = r
    /\ MapHas(rooms', r)
    /\ \/ rooms'[r].broadcaster = currentUserId'[t]
       \/ \E k \in 1..Len(rooms'[r].viewers) : rooms'[r].viewers[k] = currentUserId'[t]

\* C40: the membership of a room changes only in a successful join or a departure,
\* and such a step writes to every session that is a member of the room after it
\* a snapshot of the room, the last of which carries the room's broadcaster and
\* its viewers list as the registry holds them, the viewers in join order; no
\* step writes a snapshot that differs from the registry.
C40_Step ==
    /\ rooms' # rooms => (JoinedOk \/ ClosedMember)
    /\ \A r \in DOMAIN rooms' :
          /\ \A i, j \in 1..Len(rooms'[r].viewers) :
                i < j => rooms'[r].viewers[i] < rooms'[r].viewers[j]
          /\ \A t \in DOMAIN readyState :
                LET snaps == SnapshotsTo(t, r) IN
                /\ (MemberAfter(t, r) /\ (~MapHas(rooms, r) \/ rooms'[r] # rooms[r]))
                      => Len(snaps) >= 1
                /\ \A k \in 1..Len(snaps) :
                      /\ snaps[k].msg.payload.room.broadcaster = rooms'[r].broadcaster
                      /\ snaps[k].msg.payload.room.viewers = rooms'[r].viewers

C40_MembersSeeRegistry == [][C40_Step]_vars

\* the third member joined: the last envelope is the ROOM_STATE with the broadcaster
\* and both viewers in join order
C40_Witness ==
    /\ last.op = "JOIN_ROOM" /\ last.result = "ok"
    /\ MapHas(rooms, "r") /\ rooms["r"].broadcaster = 1 /\ rooms["r"].viewers = <<2, 3>>
    /\ Len(sent) = 6
    /\ sent[6].to = 3 /\ sent[6].msg.type = "ROOM_STATE"
    /\ sent[6].msg.payload.room.broadcaster = 1
    /\ sent[6].msg.payload.room.viewers = <<2, 3>>

====
